---- MODULE Spec2Model ----
(***************************************************************************)
(* Model of the DTLS 1.2 PSK client of the Philips Hue desktop-sync        *)
(* plugin (dtlsclient.js): one DTLSClient object, the GLib main loop that  *)
(* runs its callbacks (connect completion, read completion, write          *)
(* completion, timer expiry), and the calls its owner makes                *)
(* (connectBridge, sendEncrypted, closeBridge).  Every callback of the     *)
(* source runs to completion on the single main-loop thread, so every      *)
(* callback is one action.                                                 *)
(* Debug logging is off (Utils.getDebug() is false), so _loghex and         *)
(* _logDecryptionData return at once.                                      *)
(* The block cipher of the plugin (aes.js) and the pre-master secret are   *)
(* pure functions of their inputs; PureSpec applies them to inputs drawn   *)
(* from bounded sets.                                                      *)
(***************************************************************************)
EXTENDS Integers, Sequences, FiniteSets, TLC

(***************************************************************************)
(* Bounds of the model (not program constants).                            *)
(***************************************************************************)
\* number of HelloVerifyRequest, ServerHelloDone and Finished records the
\* transport delivers (the other records change no state when repeated)
MaxHelloVerify == 1
MaxHelloDone == 1
MaxFinished == 1
\* number of sendEncrypted calls made by the owner
MaxSendCalls == 1
\* number of closeBridge calls made by the owner
MaxCloseCalls == 1
\* number of records packed in one read buffer
MaxBufRecs == 1

(***************************************************************************)
(* Program constants.                                                      *)
(***************************************************************************)
HELLO_REQUEST == 0
CLIENT_HELLO == 1
SERVER_HELLO == 2
HELLO_VERIFY_REQUEST == 3
SERVER_HELLO_DONE == 14
CLIENT_KEY_EXCHANGE == 16
FINISHED == 20

CHANGE_CIPHER_SPEC == 20
ALERT == 21
HANDSHAKE == 22
APPLICATION_DATA == 23

\* the delay of the retransmission timer, in ms
RetransmitDelay == 200
\* _initiateHandshake returns without sending when attemptCounter > 2
MaxAttemptCounter == 2

\* JavaScript's undefined and NaN as values of the number-typed field streamSeq
Undefined == -1000
NaN == -2000

\* the key under which a handshake message whose first byte is undefined
\* is stored in _handshakeMessages
UndefKey == -3

\* the entries of _handshakeMessages the program reads; the entries under
\* the other keys are written and never read, and are left out of msgs
HKeys == {CLIENT_HELLO, SERVER_HELLO, SERVER_HELLO_DONE, CLIENT_KEY_EXCHANGE}

\* the values the 28 random bytes of a ServerHello take
Randoms == {1, 2}

\* the kinds of inbound records counted in delivered
Kinds == {"HelloVerifyRequest", "ServerHelloDone", "Finished", "other"}
\* the cookies a HelloVerifyRequest can carry (byte sequences)
Cookies == {<<>>, <<7>>}

VARIABLES
    connectState,   \* connectBridge: "idle", "pending", "done" or "failed"
    connection,     \* this._connection is set
    socketClosed,   \* the socket was closed
    timers,         \* this.timers: the list of timer ids
    sources,        \* the GLib timeout sources: [id, attempt]
    nextTimer,      \* the id GLib.timeout_add returns next
    nextRandom,     \* the value getRandomInt yields next for the 28 random bytes
    hip,            \* this._handshakeInProgress
    enc,            \* this._encrypted
    msgs,           \* this._handshakeMessages, at the keys in HKeys
    helloPkt,       \* this._helloClientPacket
    clientRandom,   \* this._clientRandom
    serverRandom,   \* this._serverRandom
    masterSecret,   \* this._masterSecret
    keyBlock,       \* this._keyBlock (and the four slices taken from it)
    streamSeq,      \* this.streamSeq
    outCancelled,   \* this._ouputCancelleable is cancelled
    inCancelled,    \* this._inputCancelleable is cancelled
    writes,         \* outstanding write_all_async operations with a callback
    sent,           \* the records handed to the transport, in order
    readArmed,      \* a fill_async is outstanding
    signals,        \* the notifications emitted, in order
    lastRet,        \* what the last sendEncrypted call returned
    finVerified,    \* an inbound Finished has passed AEAD verification
    delivered,      \* number of inbound records delivered, by kind
    sendCalls,      \* number of sendEncrypted calls
    closeCalls,     \* number of closeBridge calls by the owner
    psk,            \* this._psk: the hex characters of the pre-shared key
    preMaster,      \* the pre-master secret built from psk, once built
    aesKey,         \* the key handed to encrypt and decrypt of aes.js
    aesInput,       \* the 16-byte block handed to them
    aesEncrypted,   \* what encrypt(aesInput, aesKey) returned, once called
    aesDecrypted,   \* what decrypt returned, once called
    pureFn,         \* the pure function called on its own, or "none"
    pureArgs,       \* the arguments of the call
    pureRet         \* what the call returned, once made

vars == <<connectState, connection, socketClosed, timers, sources, nextTimer,
          nextRandom,          hip, enc, msgs, helloPkt, clientRandom, serverRandom, masterSecret,
          keyBlock, streamSeq, outCancelled, inCancelled, writes, sent,
          readArmed, signals, lastRet, finVerified, delivered,
          sendCalls, closeCalls,
          psk, preMaster, aesKey, aesInput, aesEncrypted, aesDecrypted,
          pureFn, pureArgs, pureRet>>

\* the object and its environment as one record, for the handlers below;
\* threw tells that the running callback has ended in an uncaught exception
Obj ==
    [connectState |-> connectState, connection |-> connection,
     socketClosed |-> socketClosed, timers |-> timers, sources |-> sources,
     nextTimer |-> nextTimer, nextRandom |-> nextRandom, hip |-> hip, enc |-> enc, msgs |-> msgs,
     helloPkt |-> helloPkt, clientRandom |-> clientRandom,
     serverRandom |-> serverRandom, masterSecret |-> masterSecret,
     keyBlock |-> keyBlock, streamSeq |-> streamSeq,
     outCancelled |-> outCancelled, inCancelled |-> inCancelled,
     writes |-> writes, sent |-> sent, readArmed |-> readArmed,
     signals |-> signals, threw |-> FALSE, lastRet |-> lastRet,
     finVerified |-> finVerified, delivered |-> delivered,
     sendCalls |-> sendCalls, closeCalls |-> closeCalls]

Install(o) ==
    /\ connectState' = o.connectState
    /\ connection' = o.connection
    /\ socketClosed' = o.socketClosed
    /\ timers' = o.timers
    /\ sources' = o.sources
    /\ nextTimer' = o.nextTimer
    /\ nextRandom' = o.nextRandom
    /\ hip' = o.hip
    /\ enc' = o.enc
    /\ msgs' = o.msgs
    /\ helloPkt' = o.helloPkt
    /\ clientRandom' = o.clientRandom
    /\ serverRandom' = o.serverRandom
    /\ masterSecret' = o.masterSecret
    /\ keyBlock' = o.keyBlock
    /\ streamSeq' = o.streamSeq
    /\ outCancelled' = o.outCancelled
    /\ inCancelled' = o.inCancelled
    /\ writes' = o.writes
    /\ sent' = o.sent
    /\ readArmed' = o.readArmed
    /\ signals' = o.signals
    /\ lastRet' = o.lastRet
    /\ finVerified' = o.finVerified
    /\ delivered' = o.delivered
    /\ sendCalls' = o.sendCalls
    /\ closeCalls' = o.closeCalls
    /\ UNCHANGED <<psk, preMaster, aesKey, aesInput, aesEncrypted, aesDecrypted,
                   pureFn, pureArgs, pureRet>>

\* the pre-shared key of the session: 32 hex characters, 16 bytes
SessionPsk ==
    <<"0", "1", "2", "3", "4", "5", "6", "7", "8", "9", "a", "b", "c", "d",
      "e", "f", "f", "e", "d", "c", "b", "a", "9", "8", "7", "6", "5", "4",
      "3", "2", "1", "0">>

\* DTLSClient._init
ClientInit ==
    /\ connectState = "idle"
    /\ connection = FALSE
    /\ socketClosed = FALSE
    /\ timers = <<>>
    /\ sources = {}
    /\ nextTimer = 1
    /\ nextRandom = 1
    /\ hip = TRUE
    /\ enc = FALSE
    /\ msgs = [k \in HKeys |-> <<>>]
    /\ helloPkt = <<>>
    /\ clientRandom = <<>>
    /\ serverRandom = <<>>
    /\ masterSecret = <<>>
    /\ keyBlock = <<>>
    /\ streamSeq = Undefined
    /\ outCancelled = FALSE
    /\ inCancelled = FALSE
    /\ writes = {}
    /\ sent = <<>>
    /\ readArmed = FALSE
    /\ signals = <<>>
    /\ lastRet = "none"
    /\ finVerified = FALSE
    /\ delivered = [k \in Kinds |-> 0]
    /\ sendCalls = 0
    /\ closeCalls = 0

\* the client with its key set, and no call of the block cipher made
Init ==
    /\ ClientInit
    /\ psk = SessionPsk
    /\ preMaster = <<>>
    /\ aesKey = <<>>
    /\ aesInput = <<>>
    /\ aesEncrypted = <<>>
    /\ aesDecrypted = <<>>
    /\ pureFn = "none"
    /\ pureArgs = <<>>
    /\ pureRet = <<>>


(***************************************************************************)
(* Pure helpers.                                                           *)
(***************************************************************************)

\* a JavaScript number as the 32-bit operand of a bitwise operator:
\* undefined and NaN convert to 0 (the numbers given this way are below 2^31)
ToInt32(number) == IF number \in {Undefined, NaN} THEN 0 ELSE number

\* the same for a number of up to 48 bits given as the pair <<hi, lo>> of
\* its bits 24..47 and its bits 0..23: the low 32 bits, as a signed integer
ToInt32Of(w) ==
    LET h == w[1] % 256
    IN  (IF h >= 128 THEN h - 256 ELSE h) * 16777216 + w[2]

\* the bytes uintToArray pushes for the 32-bit operand x: the two top bytes
\* use the mask 0xFF00000000, which is 0 as a 32-bit operand; the third is
\* (x & 0xFF000000) >> 24, a signed shift
UintBytes(x, length) ==
       (IF length >= 48 THEN <<0>> ELSE <<>>)
    \o (IF length >= 40 THEN <<0>> ELSE <<>>)
    \o (IF length >= 32 THEN <<x \div 16777216>> ELSE <<>>)
    \o (IF length >= 24 THEN <<(x % 16777216) \div 65536>> ELSE <<>>)
    \o (IF length >= 16 THEN <<(x % 65536) \div 256>> ELSE <<>>)
    \o (IF length >= 8 THEN <<x % 256>> ELSE <<>>)

\* uintToArray(number, length)
UintToArray(number, length) == UintBytes(ToInt32(number), length)

\* uintToArray(number, length) for a number given as a pair
UintToArrayOf(w, length) == UintBytes(ToInt32Of(w), length)

\* one step of arrayToUint: (number << 8) | byte on 32-bit signed integers;
\* an undefined byte is 0 as the operand of |, and a negative byte, whose
\* bits 8..31 are all set, is the result
ShiftOr(number, byte) ==
    LET m == number % 16777216
        b == ToInt32(byte)
    IN  IF b < 0 THEN b
        ELSE IF m >= 8388608 THEN (m - 16777216) * 256 + b ELSE m * 256 + b

RECURSIVE ArrayToUintFrom(_, _)
ArrayToUintFrom(number, a) ==
    IF a = <<>> THEN number
    ELSE ArrayToUintFrom(ShiftOr(number, Head(a)), Tail(a))

\* arrayToUint(a)
ArrayToUint(a) == ArrayToUintFrom(0, a)

\* Utils.removeFromArray(array, item)
RemoveFromArray(arr, x) == SelectSeq(arr, LAMBDA e : e # x)

\* popNextN(msg, n): the bytes popped and the bytes left; msg.shift() on an
\* empty array yields undefined, so the bytes missing are Undefined
PopNextN(msg, n) ==
    [popped |-> [i \in 1..n |-> IF i <= Len(msg) THEN msg[i] ELSE Undefined],
     rest |-> IF n >= Len(msg) THEN <<>> ELSE SubSeq(msg, n + 1, Len(msg))]

\* PRF(secret, label, seed), with HMAC an uninterpreted function: the
\* session keeps the output as the arguments it is a function of (PRFBytes
\* below computes its bytes)
PRF(secret, label, seed) == [secret |-> secret, label |-> label, seed |-> seed]

\* hashing.HMAC(secret, data) with SHA-256: a function of secret and data
\* that returns 32 bytes
HMAC(secret, data) == [i \in 1..32 |-> [hmac |-> <<secret, data>>, byte |-> i]]

DTLS_MASTER_SECRET_LENGTH == 48

\* the while loop of P_hash with Ai never replaced
RECURSIVE PHashLoop_SameA(_, _, _, _)
PHashLoop_SameA(res, Ai, secret, seed) ==
    IF Len(res) < DTLS_MASTER_SECRET_LENGTH
    THEN PHashLoop_SameA(res \o HMAC(secret, Ai \o seed), Ai, secret, seed)
    ELSE res

\* the while loop of P_hash: res = res.concat(HMAC(secret, Ai.concat(seed)));
\* Ai = HMAC(secret, Ai)
RECURSIVE PHashLoop(_, _, _, _)
PHashLoop(res, Ai, secret, seed) ==
    IF Len(res) < DTLS_MASTER_SECRET_LENGTH
    THEN PHashLoop(res \o HMAC(secret, Ai \o seed), HMAC(secret, Ai) \o <<>>,
                   secret, seed)
    ELSE res

\* P_hash(secret, seed)
P_hash(secret, seed) ==
    LET res == PHashLoop(<<>>, HMAC(secret, seed) \o <<>>, secret, seed)
    IN  [i \in 1..DTLS_MASTER_SECRET_LENGTH |-> res[i]] \o <<>>

\* s.charCodeAt(i) for the characters of the labels
Letters ==
    <<"a", "b", "c", "d", "e", "f", "g", "h", "i", "j", "k", "l", "m", "n",
      "o", "p", "q", "r", "s", "t", "u", "v", "w", "x", "y", "z">>

CharCodeAt(c) ==
    IF c = " " THEN 32 ELSE 96 + (CHOOSE i \in 1..26 : Letters[i] = c)

\* stringToArray(s), for a string given as the sequence of its characters
RECURSIVE StringToArray(_)
StringToArray(s) ==
    IF s = <<>> THEN <<>>
    ELSE UintToArray(CharCodeAt(Head(s)), 8) \o StringToArray(Tail(s))

\* PRF(secret, label, seed), byte by byte
PRFBytes(secret, label, seed) == P_hash(secret, StringToArray(label) \o seed)

\* the hex digits parseInt reads
HexDigits ==
    <<"0", "1", "2", "3", "4", "5", "6", "7", "8", "9", "a", "b", "c", "d",
      "e", "f">>

HexValue(c) == (CHOOSE i \in 1..16 : HexDigits[i] = c) - 1

\* parseInt("0x" + c1 + c2) for two hex digits
ParseHexPair(c1, c2) == 16 * HexValue(c1) + HexValue(c2)

\* for (i = 0; i < psk.length; i = i + 2) push(parseInt("0x" + psk[i] +
\* psk[i + 1])), for a key of an even number of characters
RECURSIVE PskBytes(_)
PskBytes(key) ==
    IF Len(key) < 2 THEN <<>>
    ELSE <<ParseHexPair(key[1], key[2])>> \o PskBytes(SubSeq(key, 3, Len(key)))

\* the number of passes of the loop that writes the zero bytes
ZeroBytes == 16

\* for (i = 0; i < 16; i++) concat(uintToArray(0, 8))
RECURSIVE ZeroBlock(_)
ZeroBlock(i) ==
    IF i < ZeroBytes THEN UintToArray(0, 8) \o ZeroBlock(i + 1) ELSE <<>>

\* the pre-master secret _createHandshakeFinishedBody builds from this._psk
PreMasterSecretOf(key) ==
    UintToArray(Len(key) \div 2, 16) \o ZeroBlock(0)
 \o UintToArray(Len(key) \div 2, 16) \o PskBytes(key)

\* the pre-master secret is a function of the PSK alone, which never changes
PreMasterSecret == PreMasterSecretOf(SessionPsk)

\* the slices of the key block
ClientWriteKey(kb) == [slice |-> <<0, 16>>, of |-> kb]
ServerWriteKey(kb) == [slice |-> <<16, 32>>, of |-> kb]
ClientIV(kb) == [slice |-> <<32, 36>>, of |-> kb]
ServerIV(kb) == [slice |-> <<36, 40>>, of |-> kb]

(***************************************************************************)
(* Outbound packets.  A packet is the property bag the source passes to    *)
(* _createPacket; cookie and random are <<>> when the property is 0 or     *)
(* undefined and <<v>> when it holds v.                                    *)
(***************************************************************************)
Packet(cType, hType, epoch, headerSeq, handshakeSeq) ==
    [cType |-> cType, hType |-> hType, epoch |-> epoch, headerSeq |-> headerSeq,
     handshakeSeq |-> handshakeSeq, cookie |-> <<>>, random |-> <<>>]

\* a handshake message as kept in _handshakeMessages
HsMsg(dir, hType, hSeq, random, cookie, sealed, verify) ==
    [dir |-> dir, hType |-> hType, hSeq |-> hSeq, random |-> random,
     cookie |-> cookie, sealed |-> sealed, verify |-> verify]

\* the cookie field without its length byte
CookieField_NoLength(cookie) ==
    IF cookie = <<>> THEN <<0>> ELSE cookie[1]

\* the cookie field of a ClientHello body: a length byte and the cookie
CookieField(cookie) ==
    IF cookie = <<>> THEN <<0>>
    ELSE UintToArray(Len(cookie[1]), 8) \o cookie[1]

\* _createRecordHeader and the body, as the record handed to the transport;
\* epoch and headerSeq are the values the header bytes encode
Record(packet, hs, nonce) ==
    [cType |-> ArrayToUint(UintToArray(packet.cType, 8)),
     epoch |-> ArrayToUint(UintToArray(packet.epoch, 16)),
     headerSeq |-> ArrayToUint(UintToArray(packet.headerSeq, 48)),
     hs |-> hs, nonce |-> nonce]

\* _encryptMsg: the nonce and key of the seal; <<>> when this._clientIV is
\* undefined, where the source throws a TypeError
EncryptMsg(o, packet) ==
    IF o.keyBlock = <<>> THEN <<>>
    ELSE <<[iv |-> ClientIV(o.keyBlock[1]),
            key |-> ClientWriteKey(o.keyBlock[1]),
            epochAndSeq |-> UintToArray(packet.epoch, 16)
                            \o UintToArray(packet.headerSeq, 48)]>>

\* _sendMsg(msg, callback): hands msg to write_all_async with the output
\* token.  The completion of a write with a null callback changes nothing,
\* so only the writes with a callback are kept in writes.
SendMsg(o, rec, cb) ==
    [o EXCEPT !.sent = Append(@, rec),
              !.writes = IF cb = "null" THEN @
                         ELSE @ \cup {[id |-> Len(o.sent) + 1, cb |-> cb]}]

\* _createHandshakeClientHelloBody, _createHandshake and _createPacket for a
\* ClientHello packet.  The 28 bytes drawn from getRandomInt are a fresh
\* value: the n-th draw is the value n, distinct from every earlier draw.
CreateClientHello(o, packet) ==
    LET fresh == packet.random = <<>>
        pkt == IF fresh THEN [packet EXCEPT !.random = <<o.nextRandom>>]
               ELSE packet
        o1 == IF fresh THEN [o EXCEPT !.clientRandom = <<o.nextRandom>>,
                                      !.nextRandom = @ + 1]
              ELSE o
        hs == HsMsg("out", CLIENT_HELLO, packet.handshakeSeq, pkt.random[1],
                    CookieField(packet.cookie), FALSE, <<>>)
    IN  [o |-> [o1 EXCEPT !.msgs[CLIENT_HELLO] = <<hs>>],
         packet |-> pkt,
         rec |-> Record(packet, <<hs>>, <<>>)]

\* _sendHandshakeRequest
SendHandshakeRequest(o) ==
    LET packet == Packet(HANDSHAKE, CLIENT_HELLO, 0, 0, 0)
        c == CreateClientHello([o EXCEPT !.enc = FALSE], packet)
    IN  [SendMsg(c.o, c.rec, "null") EXCEPT !.helloPkt = <<c.packet>>]

\* _initiateHandshake giving up one attempt later
InitiateHandshake_OneMore(o, attemptCounter) ==
    LET o1 == [o EXCEPT !.outCancelled = FALSE]
    IN  IF attemptCounter > MaxAttemptCounter + 1 THEN o1
        ELSE LET o2 == SendHandshakeRequest(o1)
             IN  [o2 EXCEPT !.sources = @ \cup {[id |-> o2.nextTimer,
                                                 attempt |-> attemptCounter]},
                            !.timers = Append(@, o2.nextTimer),
                            !.nextTimer = @ + 1]

\* _initiateHandshake(attemptCounter)
InitiateHandshake(o, attemptCounter) ==
    LET o1 == [o EXCEPT !.outCancelled = FALSE]
    IN  IF attemptCounter > MaxAttemptCounter THEN o1
        ELSE LET o2 == SendHandshakeRequest(o1)
             IN  [o2 EXCEPT !.sources = @ \cup {[id |-> o2.nextTimer,
                                                 attempt |-> attemptCounter]},
                            !.timers = Append(@, o2.nextTimer),
                            !.nextTimer = @ + 1]

\* this._ouputCancelleable.cancel()
CancelOutput(o) == [o EXCEPT !.outCancelled = TRUE]

\* clearTimers
ClearTimers(o) ==
    [o EXCEPT !.sources = {s \in @ : \A i \in 1..Len(o.timers) : o.timers[i] # s.id},
              !.timers = <<>>]

\* closeBridge with the socket closed before the tokens are cancelled
CloseBridgeSteps_CloseFirst(o) ==
    LET o1 == ClearTimers(o)
        o2 == [o1 EXCEPT !.socketClosed = TRUE]
        o3 == CancelOutput(o2)
        o4 == [o3 EXCEPT !.inCancelled = TRUE]
        o5 == [o4 EXCEPT !.signals = Append(@, "disconnected")]
    IN  IF ~o1.connection THEN <<[effect |-> "clearTimers", o |-> o1]>>
        ELSE <<[effect |-> "clearTimers", o |-> o1],
               [effect |-> "close", o |-> o2],
               [effect |-> "cancelOutput", o |-> o3],
               [effect |-> "cancelInput", o |-> o4],
               [effect |-> "emit", o |-> o5]>>

\* closeBridge, statement by statement: the effect of each statement and
\* the object after it
CloseBridgeSteps(o) ==
    LET o1 == ClearTimers(o)
        o2 == CancelOutput(o1)
        o3 == [o2 EXCEPT !.inCancelled = TRUE]
        o4 == [o3 EXCEPT !.socketClosed = TRUE]
        o5 == [o4 EXCEPT !.signals = Append(@, "disconnected")]
    IN  IF ~o1.connection THEN <<[effect |-> "clearTimers", o |-> o1]>>
        ELSE <<[effect |-> "clearTimers", o |-> o1],
               [effect |-> "cancelOutput", o |-> o2],
               [effect |-> "cancelInput", o |-> o3],
               [effect |-> "close", o |-> o4],
               [effect |-> "emit", o |-> o5]>>

\* closeBridge
CloseBridge(o) ==
    LET steps == CloseBridgeSteps(o)
    IN  steps[Len(steps)].o


(***************************************************************************)
(* The handshake flight the client sends after ServerHelloDone.            *)
(***************************************************************************)

\* _sendKeyExchange
SendKeyExchange(o) ==
    LET packet == Packet(HANDSHAKE, CLIENT_KEY_EXCHANGE, 0, 2, 2)
        hs == HsMsg("out", CLIENT_KEY_EXCHANGE, packet.handshakeSeq, 0, <<>>,
                    FALSE, <<>>)
        o1 == [o EXCEPT !.msgs[CLIENT_KEY_EXCHANGE] = <<hs>>]
    IN  SendMsg(o1, Record(packet, <<hs>>, <<>>), "_sendHandshakeCipherSpec")

\* _sendHandshakeCipherSpec
SendHandshakeCipherSpec(o) ==
    LET packet == Packet(CHANGE_CIPHER_SPEC, -1, 0, 3, 3)
    IN  SendMsg(o, Record(packet, <<>>, <<>>), "_sendHandshakeFinished")

\* the transcript _createHandshakeFinishedBody hashes: four entries of
\* _handshakeMessages, each <<>> when the entry is undefined
Transcript(o) ==
    <<o.msgs[CLIENT_HELLO], o.msgs[SERVER_HELLO], o.msgs[SERVER_HELLO_DONE],
      o.msgs[CLIENT_KEY_EXCHANGE]>>

\* _createHandshakeFinishedBody: the derivation of the secrets.  The source
\* throws a TypeError at this._clientRandom.concat when the client random is
\* undefined and, after having set _masterSecret, at this._serverRandom.concat
\* when the server random is undefined.
CreateHandshakeFinishedBody(o) ==
    IF o.clientRandom = <<>> THEN [o EXCEPT !.threw = TRUE]
    ELSE LET ms == PRF(PreMasterSecret, "master secret",
                       <<o.clientRandom, o.serverRandom>>)
             o1 == [o EXCEPT !.masterSecret = <<ms>>]
         IN  IF o.serverRandom = <<>> THEN [o1 EXCEPT !.threw = TRUE]
             ELSE [o1 EXCEPT !.keyBlock =
                       <<PRF(ms, "key expansion",
                             <<o.serverRandom, o.clientRandom>>)>>]

\* _sendHandshakeFinished
SendHandshakeFinished(o) ==
    LET packet == Packet(HANDSHAKE, FINISHED, 1, 0, 3)
        o1 == CreateHandshakeFinishedBody([o EXCEPT !.enc = TRUE, !.hip = FALSE])
        verify == PRF(o1.masterSecret[1], "client finished", Transcript(o1))
        hs == HsMsg("out", FINISHED, packet.handshakeSeq, 0, <<>>, TRUE,
                    <<verify>>)
    IN  IF o1.threw THEN o1
        ELSE SendMsg(o1, Record(packet, <<hs>>, EncryptMsg(o1, packet)), "null")

(***************************************************************************)
(* Inbound records.  A record on the wire is cleartext ("plain"), sealed   *)
(* under the server write key the client has derived ("valid"), or sealed  *)
(* with a tag that does not verify under it ("invalid").                   *)
(***************************************************************************)
\* cut tells that the length fields of the record announce more bytes than
\* the read buffer holds
InRecord(cType, prot, hType, random, body) ==
    [cType |-> cType, epoch |-> IF prot = "plain" THEN 0 ELSE 1, prot |-> prot,
     hType |-> hType, random |-> random, body |-> body, cut |-> FALSE]

\* a ServerHello cut after its handshake header: the time and random bytes
\* are missing from the buffer, and popNextN reads them as undefined
CutServerHello ==
    [InRecord(HANDSHAKE, "plain", SERVER_HELLO,
              PopNextN(<<>>, 1).popped[1], <<>>) EXCEPT !.cut = TRUE]

\* the body of a HelloVerifyRequest: version, cookie length, cookie
HelloVerifyBody(cookie) == <<254, 253>> \o <<Len(cookie)>> \o cookie

InHandshakes(prot) ==
       {InRecord(HANDSHAKE, prot, HELLO_VERIFY_REQUEST, 0, HelloVerifyBody(c)) :
            c \in Cookies}
  \cup {InRecord(HANDSHAKE, prot, SERVER_HELLO, r, <<>>) : r \in Randoms}
  \cup {InRecord(HANDSHAKE, prot, h, 0, <<>>) : h \in {SERVER_HELLO_DONE, FINISHED}}

InRecords ==
       InHandshakes("plain")
  \cup {InRecord(HANDSHAKE, "valid", h, 0, <<>>) :
            h \in {SERVER_HELLO_DONE, FINISHED}}
  \cup {InRecord(HANDSHAKE, "invalid", FINISHED, 0, <<>>)}
  \cup {CutServerHello}
  \cup {InRecord(c, "plain", -1, 0, <<>>) :
            c \in {CHANGE_CIPHER_SPEC, ALERT, APPLICATION_DATA}}

\* the kind of an inbound record
Kind(rec) ==
    IF rec.cType # HANDSHAKE \/ rec.prot = "invalid" THEN "other"
    ELSE IF rec.hType = HELLO_VERIFY_REQUEST THEN "HelloVerifyRequest"
    ELSE IF rec.hType = SERVER_HELLO_DONE THEN "ServerHelloDone"
    ELSE IF rec.hType = FINISHED THEN "Finished"
    ELSE "other"

\* delivered after one more record; records of kind "other" are not counted
\* beyond the first
Deliver(d, rec) ==
    LET k == Kind(rec)
    IN  IF k = "other" THEN [d EXCEPT !["other"] = 1] ELSE [d EXCEPT ![k] = @ + 1]

\* at most hv HelloVerifyRequests, hd ServerHelloDones and fin Finisheds
WithinBounds(d, hv, hd, fin) ==
    /\ d["HelloVerifyRequest"] <= hv
    /\ d["ServerHelloDone"] <= hd
    /\ d["Finished"] <= fin

\* the read buffers the transport delivers: 1..MaxBufRecs records
RECURSIVE Buffers(_)
Buffers(n) ==
    IF n = 0 THEN {<<>>}
    ELSE Buffers(n - 1)
         \cup {Append(b, r) : b \in {x \in Buffers(n - 1) : Len(x) = n - 1},
                              r \in InRecords}

\* gcm.authenticatedDecryption: releases the plaintext when the tag verifies
\* and zero plaintext bytes when it does not
AuthenticatedDecryption(rec) ==
    IF rec.prot = "valid" THEN <<rec>> ELSE <<>>

\* _decryptMsg releasing the bytes whether or not the tag verifies
DecryptMsg_NoTag(o, rec) == <<rec>>

\* _decryptMsg: <<>> is the empty array; the source throws a TypeError at
\* this._serverWriteKey.length when the keys are undefined
DecryptMsg(o, rec) == AuthenticatedDecryption(rec)

\* _readHandshakePacket
ReadHandshakePacket(o, hType, m) ==
    IF hType = HELLO_VERIFY_REQUEST
    THEN LET p1 == PopNextN(m.body, 2)
             p2 == PopNextN(p1.rest, 1)
             cookieLegth == ArrayToUint(p2.popped)
         IN  [o |-> o, cookie |-> PopNextN(p2.rest, cookieLegth).popped]
    ELSE IF hType = SERVER_HELLO
    THEN [o |-> [o EXCEPT !.serverRandom = <<m.random>>], cookie |-> <<>>]
    ELSE [o |-> o, cookie |-> <<>>]

\* _readPacket passes the body of the record to _decryptMsg: a handshake
\* record, while this._encrypted is set
Decrypts(o, rec) == rec.cType = HANDSHAKE /\ o.enc

\* _readPacket: the packet read from one record.  A sealed record read as
\* cleartext starts with the high byte of its explicit epoch, which is 0.
ReadPacket(o, rec) ==
    IF rec.cType # HANDSHAKE
    THEN [o |-> o, cType |-> rec.cType, hType |-> -1, cookie |-> <<>>]
    ELSE IF Decrypts(o, rec) /\ o.keyBlock = <<>>
    THEN [o |-> [o EXCEPT !.threw = TRUE], cType |-> rec.cType, hType |-> -1,
          cookie |-> <<>>]
    ELSE LET bodyMsg == IF Decrypts(o, rec) THEN DecryptMsg(o, rec)
                        ELSE IF rec.prot = "plain" THEN <<rec>>
                        ELSE <<[rec EXCEPT !.hType = HELLO_REQUEST,
                                           !.random = 0, !.body = <<>>]>>
             key == IF bodyMsg = <<>> THEN UndefKey ELSE bodyMsg[1].hType
             hType == IF bodyMsg = <<>> THEN HELLO_REQUEST ELSE bodyMsg[1].hType
             entry == IF bodyMsg = <<>> THEN <<>>
                      ELSE <<HsMsg("in", key, 0, bodyMsg[1].random,
                                   bodyMsg[1].body, FALSE, <<>>)>>
             o1 == IF o.hip /\ key \in HKeys THEN [o EXCEPT !.msgs[key] = entry]
                   ELSE o
             o2 == [o1 EXCEPT !.finVerified =
                        @ \/ (o.enc /\ bodyMsg # <<>> /\ hType = FINISHED)]
             h == IF bodyMsg = <<>> THEN [o |-> o2, cookie |-> <<>>]
                  ELSE ReadHandshakePacket(o2, hType, bodyMsg[1])
         IN  [o |-> h.o, cType |-> rec.cType, hType |-> hType,
              cookie |-> h.cookie]

\* _handleResponseHandshake
HandleResponseHandshake(o, packet) ==
    IF packet.hType = SERVER_HELLO_DONE THEN SendKeyExchange(o)
    ELSE IF packet.hType = HELLO_VERIFY_REQUEST
    THEN IF o.helloPkt = <<>> THEN [o EXCEPT !.threw = TRUE]
         ELSE LET responsePacket == [o.helloPkt[1] EXCEPT
                                        !.headerSeq = 1, !.handshakeSeq = 1,
                                        !.cookie = <<packet.cookie>>]
                  c == CreateClientHello(o, responsePacket)
              IN  [SendMsg(c.o, c.rec, "null") EXCEPT !.helloPkt = <<c.packet>>]
    ELSE IF packet.hType = FINISHED
    THEN [o EXCEPT !.enc = TRUE, !.hip = FALSE, !.streamSeq = 0,
                   !.signals = Append(@, "connected")]
    ELSE o

\* _handleResponse without the alert case
HandleResponse_AlertIgnored(o, packet) ==
    IF packet.cType = HANDSHAKE THEN HandleResponseHandshake(o, packet)
    ELSE o

\* _handleResponse closing the session on a record of any other type
HandleResponse_OtherCloses(o, packet) ==
    IF packet.cType = HANDSHAKE THEN HandleResponseHandshake(o, packet)
    ELSE IF packet.cType = CHANGE_CIPHER_SPEC THEN o
    ELSE CloseBridge(o)

\* _handleResponse
HandleResponse(o, packet) ==
    IF packet.cType = HANDSHAKE THEN HandleResponseHandshake(o, packet)
    ELSE IF packet.cType = ALERT THEN CloseBridge(o)
    ELSE o

\* _readPacket on the bytes of the read buffer: the fields of the record
\* header, and the bytes left in msg once header and body are popped
ReadPacketBytes(msg) ==
    LET c == PopNextN(msg, 1)
        v == PopNextN(c.rest, 2)
        e == PopNextN(v.rest, 2)
        s == PopNextN(e.rest, 6)
        l == PopNextN(s.rest, 2)
        bodyLength == ArrayToUint(l.popped)
        bodyMsg == PopNextN(l.rest, bodyLength)
    IN  [cType |-> ArrayToUint(c.popped), epoch |-> ArrayToUint(e.popped),
         headerSeq |-> ArrayToUint(s.popped), bodyLength |-> bodyLength,
         rest |-> bodyMsg.rest]

\* the loop of the read callback on the bytes: the packets read, in order,
\* until msg is empty; ended is FALSE when the loop is still running after
\* fuel iterations
RECURSIVE WhileMsg(_, _, _)
WhileMsg(msg, packets, fuel) ==
    IF msg = <<>> THEN [packets |-> packets, ended |-> TRUE]
    ELSE IF fuel = 0 THEN [packets |-> packets, ended |-> FALSE]
    ELSE LET p == ReadPacketBytes(msg)
         IN  WhileMsg(p.rest,
                      Append(packets, [cType |-> p.cType, epoch |-> p.epoch,
                                       headerSeq |-> p.headerSeq,
                                       bodyLength |-> p.bodyLength]),
                      fuel - 1)

\* the loop of the read callback handling the records newest first
RECURSIVE ReadLoop_NewestFirst(_, _)
ReadLoop_NewestFirst(o, buf) ==
    IF buf = <<>> \/ o.threw THEN o
    ELSE LET last == buf[Len(buf)]
             p == ReadPacket([o EXCEPT !.delivered = Deliver(@, last)], last)
         IN  IF p.o.threw THEN p.o
             ELSE ReadLoop_NewestFirst(HandleResponse(p.o, p),
                                       SubSeq(buf, 1, Len(buf) - 1))

\* the loop of the read callback: while (msg.length !== 0) read one packet
\* and handle it; an uncaught exception leaves the loop and the callback.
\* The body of a cut record takes all the bytes left in the buffer.
RECURSIVE ReadLoop(_, _)
ReadLoop(o, buf) ==
    IF buf = <<>> \/ o.threw THEN o
    ELSE LET p == ReadPacket([o EXCEPT !.delivered = Deliver(@, Head(buf))],
                             Head(buf))
         IN  IF p.o.threw THEN p.o
             ELSE ReadLoop(HandleResponse(p.o, p),
                           IF Head(buf).cut THEN <<>> ELSE Tail(buf))

\* sendEncrypted(cleartext)
SendEncryptedCall(o) ==
    IF ~o.enc THEN [o EXCEPT !.lastRet = "false"]
    ELSE LET seq == IF o.streamSeq \in {Undefined, NaN} THEN NaN
                    ELSE o.streamSeq + 1
             o1 == [o EXCEPT !.streamSeq = seq]
             packet == Packet(APPLICATION_DATA, -1, 1, seq, -1)
             nonce == EncryptMsg(o1, packet)
         IN  IF nonce = <<>> THEN [o1 EXCEPT !.threw = TRUE, !.lastRet = "threw"]
             ELSE [o1 EXCEPT !.sent = Append(@, Record(packet, <<>>, nonce)),
                             !.lastRet = "true"]


(***************************************************************************)
(* Actions: the owner's calls and the main loop's callbacks.               *)
(***************************************************************************)

\* connectBridge: starts connect_async
ConnectBridge ==
    /\ connectState = "idle"
    /\ Install([Obj EXCEPT !.connectState = "pending"])

\* the connect_async callback when connect_finish returns a connection:
\* arms the first read and initiates the handshake with attemptCounter 0
ConnectDone ==
    /\ connectState = "pending"
    /\ Install(InitiateHandshake([Obj EXCEPT !.connectState = "done",
                                             !.connection = TRUE,
                                             !.readArmed = TRUE], 0))

\* the connect_async callback when connect_finish throws
ConnectFailed ==
    /\ connectState = "pending"
    /\ Install([Obj EXCEPT !.connectState = "failed", !.threw = TRUE])

\* the timer callback leaving its id in this.timers
TimerFire_KeepsId ==
    \E s \in sources :
        LET o1 == [Obj EXCEPT !.sources = @ \ {s}]
        IN  Install(IF o1.hip
                    THEN InitiateHandshake(CancelOutput(o1), s.attempt + 1)
                    ELSE o1)

\* the callback of GLib.timeout_add in _initiateHandshake
TimerFire ==
    \E s \in sources :
        LET o1 == [Obj EXCEPT !.sources = @ \ {s},
                              !.timers = RemoveFromArray(@, s.id)]
        IN  Install(IF o1.hip
                    THEN InitiateHandshake(CancelOutput(o1), s.attempt + 1)
                    ELSE o1)

\* the write_all_async callback when write_all_finish succeeds: runs the
\* callback given to _sendMsg
WriteCompleted(w) ==
    /\ w \in writes
    /\ ~outCancelled
    /\ LET o1 == [Obj EXCEPT !.writes = @ \ {w}]
       IN  Install(IF w.cb = "_sendHandshakeCipherSpec"
                   THEN SendHandshakeCipherSpec(o1)
                   ELSE IF w.cb = "_sendHandshakeFinished"
                   THEN SendHandshakeFinished(o1)
                   ELSE o1)

WriteDone == \E w \in writes : WriteCompleted(w)

\* the write_all_async callback when write_all_finish throws (the token was
\* cancelled or the transport failed): the callback given to _sendMsg is
\* not run
WriteFailed ==
    \E w \in writes :
        Install([Obj EXCEPT !.writes = @ \ {w}, !.threw = TRUE])

\* the fill_async callback when fill_finish returns the bytes of buf: reads
\* and handles the records of buf and arms the next read
ReadCallback(buf) ==
    LET o1 == ReadLoop(Obj, buf)
    IN  IF o1.threw THEN [o1 EXCEPT !.readArmed = FALSE] ELSE o1

\* the transport delivers a read buffer
ReadDone ==
    /\ readArmed
    /\ ~inCancelled
    /\ \E buf \in Buffers(MaxBufRecs) :
          /\ buf # <<>>
          /\ WithinBounds(ReadCallback(buf).delivered,
                          MaxHelloVerify, MaxHelloDone, MaxFinished)
          /\ Install(ReadCallback(buf))

\* the transport delivers a read buffer, where the server may send its
\* ServerHelloDone and its Finished once more and sends no HelloVerifyRequest
ReadDoneAgain ==
    /\ readArmed
    /\ ~inCancelled
    /\ \E buf \in Buffers(MaxBufRecs) :
          /\ buf # <<>>
          /\ WithinBounds(ReadCallback(buf).delivered,
                          0, MaxHelloDone + 1, MaxFinished + 1)
          /\ Install(ReadCallback(buf))

\* the fill_async callback when fill_finish throws: the callback returns
\* without arming the next read
ReadFailed ==
    /\ readArmed
    /\ Install([Obj EXCEPT !.readArmed = FALSE])

\* the owner calls sendEncrypted
SendEncrypted ==
    /\ sendCalls < MaxSendCalls
    /\ Install(SendEncryptedCall([Obj EXCEPT !.sendCalls = @ + 1]))

\* the owner calls closeBridge
CloseBridgeCall ==
    /\ closeCalls < MaxCloseCalls
    /\ Install(CloseBridge([Obj EXCEPT !.closeCalls = @ + 1]))

Next ==
    \/ ConnectBridge
    \/ ConnectDone
    \/ ConnectFailed
    \/ TimerFire
    \/ WriteDone
    \/ WriteFailed
    \/ ReadDone
    \/ ReadFailed
    \/ SendEncrypted
    \/ CloseBridgeCall

Spec == Init /\ [][Next]_vars

\* the same client when the server repeats messages of its flight
NextAgain ==
    \/ ConnectBridge
    \/ ConnectDone
    \/ TimerFire
    \/ WriteDone
    \/ WriteFailed
    \/ ReadDoneAgain
    \/ ReadFailed
    \/ SendEncrypted

AgainSpec == Init /\ [][NextAgain]_vars

\* a ServerHello sealed under the server write key (epoch 1)
SealedServerHellos ==
    {InRecord(HANDSHAKE, "valid", SERVER_HELLO, r, <<>>) : r \in Randoms}

\* the transport delivers one record, where the server may also send a
\* sealed ServerHello and its ServerHelloDone once more, and sends no
\* HelloVerifyRequest
ReadDoneSealed ==
    /\ readArmed
    /\ ~inCancelled
    /\ \E rec \in InRecords \cup SealedServerHellos :
          /\ WithinBounds(ReadCallback(<<rec>>).delivered,
                          0, MaxHelloDone + 1, MaxFinished)
          /\ Install(ReadCallback(<<rec>>))

\* the same client when the server starts its flight again after the
\* handshake
NextSealed ==
    \/ ConnectBridge
    \/ ConnectDone
    \/ TimerFire
    \/ WriteDone
    \/ ReadDoneSealed

SealedSpec == Init /\ [][NextSealed]_vars

\* the read buffers that hold two records
PackedBuffers == {<<r1, r2>> : r1, r2 \in InRecords}

\* the transport delivers a read buffer of two records
ReadDonePacked ==
    /\ readArmed
    /\ ~inCancelled
    /\ \E buf \in PackedBuffers :
          /\ WithinBounds(ReadCallback(buf).delivered,
                          MaxHelloVerify, MaxHelloDone, MaxFinished)
          /\ Install(ReadCallback(buf))

\* the same client when the server packs its records two to a datagram
NextPacked ==
    \/ ConnectBridge
    \/ ConnectDone
    \/ TimerFire
    \/ WriteDone
    \/ ReadDonePacked

PackedSpec == Init /\ [][NextPacked]_vars

\* weak fairness of TimerFire: the main loop dispatches every timeout source
\* that stays armed.  A TimerFire step is possible exactly when a source is
\* armed, so ENABLED <<TimerFire>>_vars is written as sources # {}
FairSpec == Spec /\ ([]<>(sources = {}) \/ []<><<TimerFire>>_vars)


\* ---------------------------------------------------------------------
\* The AES block cipher of the plugin (aes.js), as the code computes it.
\* Arrays are sequences; At reads one at a JavaScript (0-based) index.

At(array, i) == array[i + 1]

\* a ^ b on non-negative integers
RECURSIVE BitXor(_, _)
BitXor(a, b) ==
    IF a = 0 THEN b
    ELSE IF b = 0 THEN a
    ELSE (((a % 2) + (b % 2)) % 2) + 2 * BitXor(a \div 2, b \div 2)

\* a % b of JavaScript: the sign of the result is the sign of a
JsRem(a, b) == IF a >= 0 THEN a % b ELSE 0 - ((0 - a) % b)

SBox ==
    <<
      <<99, 124, 119, 123, 242, 107, 111, 197, 48, 1, 103, 43, 254, 215, 171, 118>>,
      <<202, 130, 201, 125, 250, 89, 71, 240, 173, 212, 162, 175, 156, 164, 114, 192>>,
      <<183, 253, 147, 38, 54, 63, 247, 204, 52, 165, 229, 241, 113, 216, 49, 21>>,
      <<4, 199, 35, 195, 24, 150, 5, 154, 7, 18, 128, 226, 235, 39, 178, 117>>,
      <<9, 131, 44, 26, 27, 110, 90, 160, 82, 59, 214, 179, 41, 227, 47, 132>>,
      <<83, 209, 0, 237, 32, 252, 177, 91, 106, 203, 190, 57, 74, 76, 88, 207>>,
      <<208, 239, 170, 251, 67, 77, 51, 133, 69, 249, 2, 127, 80, 60, 159, 168>>,
      <<81, 163, 64, 143, 146, 157, 56, 245, 188, 182, 218, 33, 16, 255, 243, 210>>,
      <<205, 12, 19, 236, 95, 151, 68, 23, 196, 167, 126, 61, 100, 93, 25, 115>>,
      <<96, 129, 79, 220, 34, 42, 144, 136, 70, 238, 184, 20, 222, 94, 11, 219>>,
      <<224, 50, 58, 10, 73, 6, 36, 92, 194, 211, 172, 98, 145, 149, 228, 121>>,
      <<231, 200, 55, 109, 141, 213, 78, 169, 108, 86, 244, 234, 101, 122, 174, 8>>,
      <<186, 120, 37, 46, 28, 166, 180, 198, 232, 221, 116, 31, 75, 189, 139, 138>>,
      <<112, 62, 181, 102, 72, 3, 246, 14, 97, 53, 87, 185, 134, 193, 29, 158>>,
      <<225, 248, 152, 17, 105, 217, 142, 148, 155, 30, 135, 233, 206, 85, 40, 223>>,
      <<140, 161, 137, 13, 191, 230, 66, 104, 65, 153, 45, 15, 176, 84, 187, 22>>
    >>

InvSBox ==
    <<
      <<82, 9, 106, 213, 48, 54, 165, 56, 191, 64, 163, 158, 129, 243, 215, 251>>,
      <<124, 227, 57, 130, 155, 47, 255, 135, 52, 142, 67, 68, 196, 222, 233, 203>>,
      <<84, 123, 148, 50, 166, 194, 35, 61, 238, 76, 149, 11, 66, 250, 195, 78>>,
      <<8, 46, 161, 102, 40, 217, 36, 178, 118, 91, 162, 73, 109, 139, 209, 37>>,
      <<114, 248, 246, 100, 134, 104, 152, 22, 212, 164, 92, 204, 93, 101, 182, 146>>,
      <<108, 112, 72, 80, 253, 237, 185, 218, 94, 21, 70, 87, 167, 141, 157, 132>>,
      <<144, 216, 171, 0, 140, 188, 211, 10, 247, 228, 88, 5, 184, 179, 69, 6>>,
      <<208, 44, 30, 143, 202, 63, 15, 2, 193, 175, 189, 3, 1, 19, 138, 107>>,
      <<58, 145, 17, 65, 79, 103, 220, 234, 151, 242, 207, 206, 240, 180, 230, 115>>,
      <<150, 172, 116, 34, 231, 173, 53, 133, 226, 249, 55, 232, 28, 117, 223, 110>>,
      <<71, 241, 26, 113, 29, 41, 197, 137, 111, 183, 98, 14, 170, 24, 190, 27>>,
      <<252, 86, 62, 75, 198, 210, 121, 32, 154, 219, 192, 254, 120, 205, 90, 244>>,
      <<31, 221, 168, 51, 136, 7, 199, 49, 177, 18, 16, 89, 39, 128, 236, 95>>,
      <<96, 81, 127, 169, 25, 181, 74, 13, 45, 229, 122, 159, 147, 201, 156, 239>>,
      <<160, 224, 59, 77, 174, 42, 245, 176, 200, 235, 187, 60, 131, 83, 153, 97>>,
      <<23, 43, 4, 126, 186, 119, 214, 38, 225, 105, 20, 99, 85, 33, 12, 125>>
    >>

Rcon ==
    <<
      <<0, 0, 0, 0>>,
      <<1, 0, 0, 0>>,
      <<2, 0, 0, 0>>,
      <<4, 0, 0, 0>>,
      <<8, 0, 0, 0>>,
      <<16, 0, 0, 0>>,
      <<32, 0, 0, 0>>,
      <<64, 0, 0, 0>>,
      <<128, 0, 0, 0>>,
      <<27, 0, 0, 0>>,
      <<54, 0, 0, 0>>
    >>

\* SBox[(v & 0xF0) >> 4][v & 0x0F]
SubByte(v) == At(At(SBox, v \div 16), v % 16)

InvSubByte(v) == At(At(InvSBox, v \div 16), v % 16)

AddRoundKey(state, roundKeyArray, offset) ==
    LET x(i, j) == BitXor(At(At(state, i), j),
                          At(At(roundKeyArray, offset + j), i))
        row(i) == <<x(i, 0), x(i, 1), x(i, 2), x(i, 3)>>
    IN  <<row(0), row(1), row(2), row(3)>>

SubBytes(state) ==
    LET row(i) == <<SubByte(At(At(state, i), 0)), SubByte(At(At(state, i), 1)),
                    SubByte(At(At(state, i), 2)), SubByte(At(At(state, i), 3))>>
    IN  <<row(0), row(1), row(2), row(3)>>

InvSubBytes(state) ==
    LET row(i) == <<InvSubByte(At(At(state, i), 0)),
                    InvSubByte(At(At(state, i), 1)),
                    InvSubByte(At(At(state, i), 2)),
                    InvSubByte(At(At(state, i), 3))>>
    IN  <<row(0), row(1), row(2), row(3)>>

SubWord(value) ==
    <<SubByte(At(value, 0)), SubByte(At(value, 1)),
      SubByte(At(value, 2)), SubByte(At(value, 3))>>

RotWord(value) ==
    <<At(value, 1), At(value, 2), At(value, 3), At(value, 0)>>

\* the while (true) loop of shiftRows and invShiftRows on row i, started at
\* column j and standing at column k: the row and the column it ends at
RECURSIVE CycleWalk(_, _, _, _)
CycleWalk(row, i, j, k) ==
    LET l == IF k + i >= 4 THEN (k + i) - 4 ELSE k + i
    IN  IF l = j THEN [row |-> row, k |-> k]
        ELSE CycleWalk([row EXCEPT ![k + 1] = At(row, l)], i, j, l)

\* one pass of the inner for loop: tmp = state[i][j]; the walk; state[i][k] = tmp
CyclePass(row, i, j) ==
    LET walk == CycleWalk(row, i, j, j)
    IN  [walk.row EXCEPT ![walk.k + 1] = At(row, j)]

\* for (j = from; j < limit; j++) on row i
RECURSIVE ShiftPasses(_, _, _, _)
ShiftPasses(row, i, j, limit) ==
    IF j < limit THEN ShiftPasses(CyclePass(row, i, j), i, j + 1, limit)
    ELSE row

\* shiftRows with one pass for every row
ShiftRows_OnePass(state) ==
    <<At(state, 0), ShiftPasses(At(state, 1), 1, 0, 1),
      ShiftPasses(At(state, 2), 2, 0, 1), ShiftPasses(At(state, 3), 3, 0, 1)>>

\* rows 1..3, with ((i - 1) % 2) + 1 passes each
ShiftRows(state) ==
    LET row(i) == ShiftPasses(At(state, i), i, 0, JsRem(i - 1, 2) + 1)
    IN  <<At(state, 0), row(1), row(2), row(3)>>

\* for (j = from; j >= limit; j--) on row i
RECURSIVE InvShiftPasses(_, _, _, _)
InvShiftPasses(row, i, j, limit) ==
    IF j >= limit THEN InvShiftPasses(CyclePass(row, i, j), i, j - 1, limit)
    ELSE row

\* rows 3..0, with the passes j = 3 down to ((i - 1) % 2) + 1
InvShiftRows(state) ==
    LET row(i) == InvShiftPasses(At(state, i), i, 3, JsRem(i - 1, 2) + 1)
    IN  <<row(0), row(1), row(2), row(3)>>

\* the for loop of finiteFieldMultiplication, at iteration i
RECURSIVE FiniteFieldLoop(_, _, _, _)
FiniteFieldLoop(i, result, value0, value1) ==
    IF i >= 8 THEN result
    ELSE FiniteFieldLoop(i + 1,
            IF value1 % 2 # 0 THEN BitXor(result, value0) ELSE result,
            IF (value0 \div 128) % 2 # 0 THEN BitXor(value0 * 2, 283)
            ELSE value0 * 2,
            value1 \div 2)

FiniteFieldMultiplication(value0, value1) ==
    FiniteFieldLoop(0, 0, value0, value1)

Xor4(a, b, c, d) == BitXor(BitXor(BitXor(a, b), c), d)

MixColumns(state) ==
    LET s(r, i) == At(At(state, r), i)
        f(a, b) == FiniteFieldMultiplication(a, b)
        t0(i) == Xor4(f(2, s(0, i)), f(3, s(1, i)), s(2, i), s(3, i))
        t1(i) == Xor4(s(0, i), f(2, s(1, i)), f(3, s(2, i)), s(3, i))
        t2(i) == Xor4(s(0, i), s(1, i), f(2, s(2, i)), f(3, s(3, i)))
        t3(i) == Xor4(f(3, s(0, i)), s(1, i), s(2, i), f(2, s(3, i)))
    IN  <<<<t0(0), t0(1), t0(2), t0(3)>>, <<t1(0), t1(1), t1(2), t1(3)>>,
          <<t2(0), t2(1), t2(2), t2(3)>>, <<t3(0), t3(1), t3(2), t3(3)>>>>

InvMixColumns(state) ==
    LET s(r, i) == At(At(state, r), i)
        f(a, b) == FiniteFieldMultiplication(a, b)
        t0(i) == Xor4(f(14, s(0, i)), f(11, s(1, i)),
                      f(13, s(2, i)), f(9, s(3, i)))
        t1(i) == Xor4(f(9, s(0, i)), f(14, s(1, i)),
                      f(11, s(2, i)), f(13, s(3, i)))
        t2(i) == Xor4(f(13, s(0, i)), f(9, s(1, i)),
                      f(14, s(2, i)), f(11, s(3, i)))
        t3(i) == Xor4(f(11, s(0, i)), f(13, s(1, i)),
                      f(9, s(2, i)), f(14, s(3, i)))
    IN  <<<<t0(0), t0(1), t0(2), t0(3)>>, <<t1(0), t1(1), t1(2), t1(3)>>,
          <<t2(0), t2(1), t2(2), t2(3)>>, <<t3(0), t3(1), t3(2), t3(3)>>>>

XorWord(a, b) ==
    <<BitXor(At(a, 0), At(b, 0)), BitXor(At(a, 1), At(b, 1)),
      BitXor(At(a, 2), At(b, 2)), BitXor(At(a, 3), At(b, 3))>>

\* the second for loop of keyExpansion, at word i: result holds i words
RECURSIVE KeyExpansionLoop(_, _, _, _)
KeyExpansionLoop(result, i, nK, roundLimit) ==
    IF Len(result) # i \/ i >= 4 * roundLimit THEN result
    ELSE LET prev == At(result, i - 1)
             tmp == IF i % nK = 0
                    THEN XorWord(SubWord(RotWord(prev)), At(Rcon, i \div nK))
                    ELSE IF 6 < nK /\ i % nK = 4 THEN SubWord(prev)
                    ELSE prev
         IN  KeyExpansionLoop(Append(result, XorWord(At(result, i - nK), tmp)),
                              i + 1, nK, roundLimit)

\* the first for loop of keyExpansion: the key bytes in words of four
RECURSIVE KeyWords(_)
KeyWords(key) ==
    IF Len(key) = 0 THEN <<>>
    ELSE IF Len(key) <= 4 THEN <<key>>
    ELSE <<SubSeq(key, 1, 4)>> \o KeyWords(SubSeq(key, 5, Len(key)))

KeyExpansion(roundLimit, key) ==
    KeyExpansionLoop(KeyWords(key), Len(key) \div 4, Len(key) \div 4,
                     roundLimit)

\* the key-length test with no branch for 32 bytes
RoundLimit_No256(key) ==
    IF Len(key) = 16 THEN 11
    ELSE IF Len(key) = 24 THEN 13
    ELSE Undefined

\* the key-length test of encrypt and decrypt: roundLimit, or Undefined
\* where the code throws "illegal key length: "
RoundLimit(key) ==
    IF Len(key) = 16 THEN 11
    ELSE IF Len(key) = 24 THEN 13
    ELSE IF Len(key) = 32 THEN 15
    ELSE Undefined

\* the state loaded from the input: state[parseInt(i / 4)].push(
\* input[(i * 4) % 15]) for i < 15, then state[3].push(input[15])
LoadState(input) ==
    LET cell(i) == IF i < 15 THEN At(input, (i * 4) % 15) ELSE At(input, 15)
        row(r) == <<cell(4 * r), cell(4 * r + 1), cell(4 * r + 2),
                    cell(4 * r + 3)>>
    IN  <<row(0), row(1), row(2), row(3)>>

\* output.push(state[j][i]) for i, then j
StoreOutput(state) ==
    LET col(i) == <<At(At(state, 0), i), At(At(state, 1), i),
                    At(At(state, 2), i), At(At(state, 3), i)>>
    IN  col(0) \o col(1) \o col(2) \o col(3)

\* mixColumns in every round, the last one too
MixesColumns_Always(round, roundLimit) == round < roundLimit

\* if (round + 1 < roundLimit) mixColumns(state)
MixesColumns(round, roundLimit) == round + 1 < roundLimit

\* the round loop of encrypt, at round; mixed lists, round by round, whether
\* mixColumns ran. The test on the four rows of state has TLC evaluate the
\* state of a round before it enters the next.
RECURSIVE EncryptRounds(_, _, _, _, _)
EncryptRounds(state, w, round, roundLimit, mixed) ==
    IF Len(state) # 4 \/ round >= roundLimit
    THEN [state |-> state, mixed |-> mixed]
    ELSE LET shifted == ShiftRows(SubBytes(state))
             mixes == MixesColumns(round, roundLimit)
             columns == IF mixes THEN MixColumns(shifted) ELSE shifted
         IN  EncryptRounds(AddRoundKey(columns, w, round * 4), w, round + 1,
                           roundLimit, Append(mixed, mixes))

\* what a call of encrypt or decrypt that threw leaves: no key schedule, no
\* round, no output
IllegalKeyLength ==
    [threw |-> TRUE, keyWords |-> 0, mixed |-> <<>>, output |-> <<>>]

\* encrypt(input, key): keyWords is the number of words of the key schedule
Encrypt(input, key) ==
    LET roundLimit == RoundLimit(key)
        w == KeyExpansion(roundLimit, key)
        rounds == EncryptRounds(AddRoundKey(LoadState(input), w, 0), w, 1,
                                roundLimit, <<>>)
    IN  IF roundLimit = Undefined THEN IllegalKeyLength
        ELSE [threw |-> FALSE, keyWords |-> Len(w), mixed |-> rounds.mixed,
              output |-> StoreOutput(rounds.state)]

\* the round loop of decrypt, at round, counting down to 0
RECURSIVE DecryptRounds(_, _, _, _)
DecryptRounds(state, w, round, mixed) ==
    IF Len(state) # 4 \/ round < 0 THEN [state |-> state, mixed |-> mixed]
    ELSE LET keyed == AddRoundKey(InvSubBytes(InvShiftRows(state)), w,
                                  round * 4)
         IN  DecryptRounds(IF round > 0 THEN InvMixColumns(keyed) ELSE keyed,
                           w, round - 1, Append(mixed, round > 0))

Decrypt(input, key) ==
    LET roundLimit == RoundLimit(key)
        w == KeyExpansion(roundLimit, key)
        rounds == DecryptRounds(
                      AddRoundKey(LoadState(input), w, (roundLimit - 1) * 4),
                      w, roundLimit - 2, <<>>)
    IN  IF roundLimit = Undefined THEN IllegalKeyLength
        ELSE [threw |-> FALSE, keyWords |-> Len(w), mixed |-> rounds.mixed,
              output |-> StoreOutput(rounds.state)]

(***************************************************************************)
(* The pure functions, applied to inputs drawn from bounded sets.          *)
(***************************************************************************)

\* the bytes 0, 1, .. n - 1: the keys of the FIPS-197 examples
CountingBytes(n) == [i \in 1..n |-> i - 1]

\* n bytes of the value b
SameBytes(n, b) == [i \in 1..n |-> b]

\* the plaintext of the FIPS-197 examples: 00 11 22 .. ff
FipsPlaintext == [i \in 1..16 |-> 17 * (i - 1)]

\* the keys handed to the cipher: the three lengths it supports, and
\* lengths next to them
AesKeyLengths == {0, 1, 15, 16, 17, 24, 25, 31, 32, 33}

AesKeys ==
    {CountingBytes(n) : n \in AesKeyLengths}
  \cup {SameBytes(n, 255) : n \in {16, 24, 32}}

AesBlocks ==
    {FipsPlaintext, SameBytes(16, 0), SameBytes(16, 255), CountingBytes(16)}

\* pre-shared keys of 1, 2, 16 and 17 bytes
Psks ==
    {SubSeq(SessionPsk \o <<"a", "b">>, 1, 2 * n) : n \in {1, 2, 16, 17}}

PureInit ==
    /\ ClientInit
    /\ preMaster = <<>>
    /\ aesEncrypted = <<>>
    /\ aesDecrypted = <<>>
    /\ pureFn = "none"
    /\ pureArgs = <<>>
    /\ pureRet = <<>>
    /\ \/ /\ psk = SessionPsk
          /\ aesKey \in AesKeys
          /\ aesInput \in AesBlocks
       \/ /\ psk \in Psks
          /\ aesKey = CountingBytes(16)
          /\ aesInput = FipsPlaintext

ClientUnchanged ==
    UNCHANGED <<connectState, connection, socketClosed, timers, sources,
                nextTimer, nextRandom, hip, enc, msgs, helloPkt, clientRandom,
                serverRandom, masterSecret, keyBlock, streamSeq, outCancelled,
                inCancelled, writes, sent, readArmed, signals, lastRet,
                finVerified, delivered, sendCalls, closeCalls>>

CallUnchanged == UNCHANGED <<pureFn, pureArgs, pureRet>>

\* encrypt(aesInput, aesKey)
AesEncrypt ==
    /\ aesEncrypted = <<>>
    /\ aesDecrypted = <<>>
    /\ aesEncrypted' = <<Encrypt(aesInput, aesKey)>>
    /\ UNCHANGED <<psk, preMaster, aesKey, aesInput, aesDecrypted>>
    /\ ClientUnchanged
    /\ CallUnchanged

\* decrypt(aesInput, aesKey)
AesDecrypt ==
    /\ aesEncrypted = <<>>
    /\ aesDecrypted = <<>>
    /\ aesDecrypted' = <<Decrypt(aesInput, aesKey)>>
    /\ UNCHANGED <<psk, preMaster, aesKey, aesInput, aesEncrypted>>
    /\ ClientUnchanged
    /\ CallUnchanged

\* decrypt(c, aesKey) for the block c that encrypt returned
AesDecryptEncrypted ==
    /\ aesEncrypted # <<>>
    /\ ~aesEncrypted[1].threw
    /\ aesDecrypted = <<>>
    /\ aesDecrypted' = <<Decrypt(aesEncrypted[1].output, aesKey)>>
    /\ UNCHANGED <<psk, preMaster, aesKey, aesInput, aesEncrypted>>
    /\ ClientUnchanged
    /\ CallUnchanged

\* the pre-master secret of _createHandshakeFinishedBody for this._psk
BuildPreMasterSecret ==
    /\ preMaster = <<>>
    /\ preMaster' = <<PreMasterSecretOf(psk)>>
    /\ UNCHANGED <<psk, aesKey, aesInput, aesEncrypted, aesDecrypted>>
    /\ ClientUnchanged
    /\ CallUnchanged

PureNext ==
    \/ AesEncrypt
    \/ AesDecrypt
    \/ AesDecryptEncrypted
    \/ BuildPreMasterSecret

PureSpec == PureInit /\ [][PureNext]_vars

\* the labels the client passes to PRF
Labels ==
    {<<"m", "a", "s", "t", "e", "r", " ", "s", "e", "c", "r", "e", "t">>,
     <<"k", "e", "y", " ", "e", "x", "p", "a", "n", "s", "i", "o", "n">>,
     <<"c", "l", "i", "e", "n", "t", " ", "f", "i", "n", "i", "s", "h", "e", "d">>}

\* secrets and seeds of 0 to 3 bytes
Secrets == {<<>>, <<1>>, <<255, 0>>, <<7, 8, 9>>}

Seeds == {<<>>, <<0>>, <<3, 4>>, <<9, 8, 7>>}

\* numbers below 2^48, as pairs <<hi, lo>> of value hi * 2^24 + lo
Numbers48 ==
    {<<0, 0>>, <<0, 1>>, <<0, 255>>, <<0, 256>>, <<0, 65535>>, <<0, 65536>>,
     <<0, 16777215>>, <<1, 0>>, <<1, 2>>, <<127, 16777215>>, <<128, 0>>,
     <<171, 13487565>>, <<255, 16777215>>, <<256, 0>>, <<256, 1>>,
     <<65536, 0>>, <<16777215, 16777215>>}

\* the calls of the pure functions
Calls ==
       {[fn |-> "P_hash", args |-> <<secret, seed>>] :
            secret \in Secrets, seed \in Seeds}
  \cup {[fn |-> "uintToArray", args |-> <<w, 48>>] : w \in Numbers48}
  \cup {[fn |-> "PRF", args |-> <<secret, label, seed>>] :
            secret \in Secrets, label \in Labels, seed \in Seeds}

FnInit ==
    /\ ClientInit
    /\ psk = SessionPsk
    /\ preMaster = <<>>
    /\ aesKey = <<>>
    /\ aesInput = <<>>
    /\ aesEncrypted = <<>>
    /\ aesDecrypted = <<>>
    /\ pureRet = <<>>
    /\ \E c \in Calls : pureFn = c.fn /\ pureArgs = c.args

AesUnchanged ==
    UNCHANGED <<psk, preMaster, aesKey, aesInput, aesEncrypted, aesDecrypted>>

\* P_hash(secret, seed)
CallPHash ==
    /\ pureFn = "P_hash"
    /\ pureRet = <<>>
    /\ pureRet' = <<P_hash(pureArgs[1], pureArgs[2])>>
    /\ UNCHANGED <<pureFn, pureArgs>>
    /\ AesUnchanged
    /\ ClientUnchanged

\* PRF(secret, label, seed)
CallPRF ==
    /\ pureFn = "PRF"
    /\ pureRet = <<>>
    /\ pureRet' = <<PRFBytes(pureArgs[1], pureArgs[2], pureArgs[3])>>
    /\ UNCHANGED <<pureFn, pureArgs>>
    /\ AesUnchanged
    /\ ClientUnchanged

\* uintToArray(number, length)
CallUintToArray ==
    /\ pureFn = "uintToArray"
    /\ pureRet = <<>>
    /\ pureRet' = <<UintToArrayOf(pureArgs[1], pureArgs[2])>>
    /\ UNCHANGED <<pureFn, pureArgs>>
    /\ AesUnchanged
    /\ ClientUnchanged

\* arrayToUint(a) for the bytes a that uintToArray returned; the number
\* they were made from is kept as the second component of pureArgs
CallArrayToUint ==
    /\ pureFn = "uintToArray"
    /\ pureRet # <<>>
    /\ pureFn' = "arrayToUint"
    /\ pureArgs' = <<pureRet[1], pureArgs[1]>>
    /\ pureRet' = <<ArrayToUint(pureRet[1])>>
    /\ AesUnchanged
    /\ ClientUnchanged

FnNext ==
    \/ CallPHash
    \/ CallPRF
    \/ CallUintToArray
    \/ CallArrayToUint

FnSpec == FnInit /\ [][FnNext]_vars


(***************************************************************************)
(* Properties.                                                             *)
(***************************************************************************)

\* the last record handed to the transport
LastSent == sent[Len(sent)]

IsClientHello(rec) ==
    rec.cType = HANDSHAKE /\ rec.hs # <<>> /\ rec.hs[1].hType = CLIENT_HELLO

IsKeyExchange(rec) ==
    rec.cType = HANDSHAKE /\ rec.hs # <<>> /\ rec.hs[1].hType = CLIENT_KEY_EXCHANGE

IsCipherSpec(rec) == rec.cType = CHANGE_CIPHER_SPEC

IsFinished(rec) ==
    rec.cType = HANDSHAKE /\ rec.hs # <<>> /\ rec.hs[1].hType = FINISHED

IsApplicationData(rec) == rec.cType = APPLICATION_DATA

\* the number of "connected" notifications emitted
ConnectedCount == Cardinality({i \in 1..Len(signals) : signals[i] = "connected"})

\* the number of ClientHello records handed to the transport
HelloCount == Cardinality({i \in 1..Len(sent) : IsClientHello(sent[i])})

\* no inbound record has arrived
NoInbound == \A k \in Kinds : delivered[k] = 0

\* the steps in which the read callback receives the one record rec
ReadOne(rec) == readArmed /\ ~inCancelled /\ Install(ReadCallback(<<rec>>))

\* the steps in which exactly one record is handed to the transport
HandsOne == Len(sent') = Len(sent) + 1

\* C1: "connected" is emitted at most once in a session
C1_ConnectedAtMostOnce == ConnectedCount <= 1

\* C2: "connected" is not emitted before the client has sent its Finished and
\* an inbound Finished has passed AEAD verification under the server write key
C2_ConnectedAfterVerifiedFinished ==
    ConnectedCount > 0 =>
        /\ \E i \in 1..Len(sent) : IsFinished(sent[i])
        /\ finVerified

\* C3: while no Finished of the server has been received, sendEncrypted
\* returns false, hands no record to the transport and leaves streamSeq alone
C3_SendEncryptedFailsBeforeFinished ==
    [][(SendEncrypted /\ delivered["Finished"] = 0) =>
           /\ lastRet' = "false"
           /\ sent' = sent
           /\ streamSeq' = streamSeq]_vars

\* C4: after "connected", every sendEncrypted call returns true, adds 1 to
\* streamSeq and hands over exactly one application-data record at epoch 1
\* whose header sequence is the new streamSeq and whose nonce is the client
\* IV followed by epoch 1 and that streamSeq
C4_SendEncryptedAfterConnected ==
    [][(SendEncrypted /\ ConnectedCount > 0) =>
           /\ lastRet' = "true"
           /\ streamSeq' = streamSeq + 1
           /\ HandsOne
           /\ IsApplicationData(sent'[Len(sent')])
           /\ sent'[Len(sent')].epoch = 1
           /\ sent'[Len(sent')].headerSeq = streamSeq'
           /\ keyBlock # <<>>
           /\ sent'[Len(sent')].nonce =
                  <<[iv |-> ClientIV(keyBlock[1]),
                     key |-> ClientWriteKey(keyBlock[1]),
                     epochAndSeq |-> <<0, 1, 0, 0, 0, 0, 0, streamSeq'>>]>>]_vars

\* C5: the header sequence numbers of the handshake and ChangeCipherSpec
\* records sent at epoch 0 are strictly increasing in send order
C5_Epoch0SequenceIncreasing ==
    \A i, j \in 1..Len(sent) :
        (/\ i < j
         /\ sent[i].epoch = 0 /\ sent[j].epoch = 0
         /\ sent[i].cType \in {HANDSHAKE, CHANGE_CIPHER_SPEC}
         /\ sent[j].cType \in {HANDSHAKE, CHANGE_CIPHER_SPEC})
        => sent[i].headerSeq < sent[j].headerSeq

\* C6: the epoch of the records sent never decreases: no record of epoch 0
\* is sent after a record of epoch 1
C6_EpochNeverDecreases ==
    \A i, j \in 1..Len(sent) : i < j => sent[i].epoch <= sent[j].epoch

\* the client has stopped: no timer is pending and no write is outstanding
Stopped == connection /\ sources = {} /\ writes = {}

C8_NoRetransmitAfterResponse ==
    [][(TimerFire /\ (delivered["HelloVerifyRequest"] > 0 \/ serverRandom # <<>>))
           => (sent' = sent /\ nextRandom' = nextRandom)]_vars

\* the steps in which the read callback receives one record that
\* _readPacket reads as a HelloVerifyRequest carrying cookie c
HandlesHelloVerify(c) ==
    \E rec \in InRecords :
        /\ rec.body = HelloVerifyBody(c)
        /\ ReadPacket(Obj, rec).hType = HELLO_VERIFY_REQUEST
        /\ ReadOne(rec)

\* C9: on receiving a HelloVerifyRequest carrying cookie C the client hands
\* exactly one record to the transport: a ClientHello with header sequence 1,
\* handshake sequence 1, the length-prefixed cookie C, and the random of the
\* ClientHello it handed over most recently
C9_HelloVerifyAnswer ==
    [][\A c \in Cookies :
          HandlesHelloVerify(c) =>
              /\ HandsOne
              /\ IsClientHello(sent'[Len(sent')])
              /\ sent'[Len(sent')].epoch = 0
              /\ sent'[Len(sent')].headerSeq = 1
              /\ sent'[Len(sent')].hs[1].hSeq = 1
              /\ sent'[Len(sent')].hs[1].cookie = <<Len(c)>> \o c
              /\ \E i \in 1..Len(sent) :
                    /\ IsClientHello(sent[i])
                    /\ \A j \in (i + 1)..Len(sent) : ~IsClientHello(sent[j])
                    /\ sent'[Len(sent')].hs[1].random = sent[i].hs[1].random]_vars

\* a cookie-bearing ClientHello has been sent in answer to a
\* HelloVerifyRequest that arrived after a retransmission
C9_Witness ==
    /\ delivered["HelloVerifyRequest"] = 1
    /\ Len(sent) = 3
    /\ IsClientHello(LastSent)
    /\ LastSent.headerSeq = 1
    /\ LastSent.hs[1].cookie = <<1, 7>>
    /\ LastSent.hs[1].random = 2

\* the steps in which the read callback receives one record that
\* _readPacket reads as a ServerHelloDone
HandlesHelloDone ==
    \E rec \in InRecords :
        /\ ReadPacket(Obj, rec).hType = SERVER_HELLO_DONE
        /\ ReadOne(rec)

\* C10: on receiving ServerHelloDone the client sends ClientKeyExchange
\* (epoch 0, header sequence 2), then, when that write has completed,
\* ChangeCipherSpec (epoch 0, header sequence 3), then, when that write has
\* completed, Finished (epoch 1, sealed under the client write key); a
\* ChangeCipherSpec or Finished is handed over in no other step, and no
\* record is sealed under the client write key before the first Finished
C10_FlightInOrder ==
    [][/\ HandlesHelloDone =>
              /\ HandsOne
              /\ IsKeyExchange(sent'[Len(sent')])
              /\ sent'[Len(sent')].epoch = 0
              /\ sent'[Len(sent')].headerSeq = 2
       /\ \A w \in writes :
              (WriteCompleted(w) /\ IsKeyExchange(sent[w.id])) =>
                  /\ HandsOne
                  /\ IsCipherSpec(sent'[Len(sent')])
                  /\ sent'[Len(sent')].epoch = 0
                  /\ sent'[Len(sent')].headerSeq = 3
       /\ \A w \in writes :
              (WriteCompleted(w) /\ IsCipherSpec(sent[w.id])) =>
                  /\ HandsOne
                  /\ IsFinished(sent'[Len(sent')])
                  /\ sent'[Len(sent')].epoch = 1
                  /\ sent'[Len(sent')].nonce # <<>>
       /\ (Len(sent') > Len(sent) /\ IsCipherSpec(sent'[Len(sent')])) =>
              \E w \in writes : IsKeyExchange(sent[w.id]) /\ WriteCompleted(w)
       /\ (Len(sent') > Len(sent) /\ IsFinished(sent'[Len(sent')])) =>
              \E w \in writes : IsCipherSpec(sent[w.id]) /\ WriteCompleted(w)
       /\ \A i \in 1..Len(sent') :
              sent'[i].nonce # <<>> =>
                  \E j \in 1..i : IsFinished(sent'[j])]_vars

\* the session was closed: timers cleared, tokens cancelled, socket closed
\* and "disconnected" emitted last
ClosedNow ==
    /\ sources' = {}
    /\ timers' = <<>>
    /\ outCancelled'
    /\ inCancelled'
    /\ socketClosed'
    /\ signals' = Append(signals, "disconnected")

\* C11: whenever the client reads a record with content type alert (21),
\* before, during or after the handshake, the session is closed: every
\* pending timer is cleared, the write and read tokens are cancelled, the
\* socket is closed and "disconnected" is emitted
C11_AlertCloses ==
    [][\A rec \in InRecords :
          (rec.cType = ALERT /\ ReadOne(rec)) => ClosedNow]_vars

\* an alert has closed the session while the first retransmission timer was
\* pending, or after the client had sent its Finished
C11_Witness ==
    /\ closeCalls = 0
    /\ socketClosed
    /\ signals # <<>> /\ signals[Len(signals)] = "disconnected"
    /\ sources = {}
    /\ \/ hip /\ HelloCount = 1 /\ Len(sent) = 1
       \/ ~hip /\ \E i \in 1..Len(sent) : IsFinished(sent[i])

\* the position of an effect among the steps of closeBridge (0 when absent)
StepOf(steps, effect) ==
    IF \E i \in 1..Len(steps) : steps[i].effect = effect
    THEN CHOOSE i \in 1..Len(steps) : steps[i].effect = effect
    ELSE 0

\* C12: closeBridge on an established connection clears every pending timer
\* and cancels the write token and the read token before it closes the
\* socket, emits "disconnected" only after that, and leaves no timer pending
C12_CloseOrder ==
    [][(CloseBridgeCall /\ connection) =>
           LET steps == CloseBridgeSteps(Obj)
               close == StepOf(steps, "close")
               emit == StepOf(steps, "emit")
           IN  /\ close > 0
               /\ 0 < StepOf(steps, "clearTimers")
               /\ StepOf(steps, "clearTimers") < close
               /\ 0 < StepOf(steps, "cancelOutput")
               /\ StepOf(steps, "cancelOutput") < close
               /\ 0 < StepOf(steps, "cancelInput")
               /\ StepOf(steps, "cancelInput") < close
               /\ steps[close - 1].o.sources = {}
               /\ steps[close - 1].o.outCancelled
               /\ steps[close - 1].o.inCancelled
               /\ ~steps[close - 1].o.socketClosed \/ socketClosed
               /\ emit > close
               /\ ClosedNow]_vars

\* the owner has closed an established connection while a retransmission
\* timer was pending
C12_Witness ==
    /\ closeCalls = 1
    /\ NoInbound
    /\ connection /\ socketClosed
    /\ signals = <<"disconnected">>
    /\ sources = {}
    /\ hip /\ HelloCount = 2

\* C13: when a read completion or a write completion reports an error, the
\* session is closed and "disconnected" is emitted
C13_TransportErrorCloses ==
    [][(ReadFailed \/ WriteFailed) =>
           /\ socketClosed'
           /\ \E i \in 1..Len(signals') : signals'[i] = "disconnected"]_vars

\* rec is a handshake record whose tag does not verify under the server
\* write key the client has derived
FailsVerification(rec) ==
    /\ rec.cType = HANDSHAKE
    /\ enc
    /\ keyBlock # <<>>
    /\ AuthenticatedDecryption(rec) = <<>>

KeyExchangeSent == \E i \in 1..Len(sent) : IsKeyExchange(sent[i])

\* C15: a ServerHelloDone received before any ServerHello, or after the
\* client has sent its ClientKeyExchange, is ignored: no record is sent, no
\* key is derived and the handshake state does not change
C15_UnexpectedHelloDoneIgnored ==
    [][(HandlesHelloDone /\ (serverRandom = <<>> \/ KeyExchangeSent)) =>
           UNCHANGED <<sent, writes, masterSecret, keyBlock, hip, enc, msgs>>]_vars

\* C16: a record whose length fields announce more bytes than the read
\* buffer holds is not dispatched to a handler and sets no session state:
\* not the server random, not a transcript entry
C16_OverlongRecordRejected ==
    [][\A rec \in InRecords :
          (rec.cut /\ ReadOne(rec)) =>
              UNCHANGED <<serverRandom, msgs, sent, writes, hip, enc,
                          streamSeq, signals, socketClosed>>]_vars

\* the key lengths the cipher supports
LegalKey == Len(aesKey) \in {16, 24, 32}

\* C17: for every key of 16, 24 or 32 bytes and every 16-byte block,
\* decrypt(encrypt(block, key), key) is the block
C17_DecryptInvertsEncrypt ==
    (LegalKey /\ aesEncrypted # <<>> /\ aesDecrypted # <<>>) =>
        /\ ~aesDecrypted[1].threw
        /\ aesDecrypted[1].output = aesInput

C17_Witness ==
    /\ Len(aesKey) = 32
    /\ aesInput = SameBytes(16, 255)
    /\ aesEncrypted # <<>>
    /\ aesEncrypted[1].output # aesInput
    /\ aesDecrypted # <<>>
    /\ aesDecrypted[1].output = aesInput

\* the ciphertexts FIPS-197 publishes for its example vectors, by key length
FipsCiphertext(n) ==
    IF n = 16
    THEN <<105, 196, 224, 216, 106, 123, 4, 48,
           216, 205, 183, 128, 112, 180, 197, 90>>
    ELSE IF n = 24
    THEN <<221, 169, 124, 164, 134, 76, 223, 224,
           110, 175, 112, 160, 236, 13, 113, 145>>
    ELSE <<142, 162, 183, 202, 81, 103, 69, 191,
           234, 252, 73, 144, 75, 73, 96, 137>>

\* C18: for the plaintext 00112233445566778899aabbccddeeff and the keys
\* 000102..0f, 000102..17 and 000102..1f, encrypt returns the ciphertext
\* FIPS-197 publishes, in 10, 12 and 14 rounds, of which all but the last
\* mix the columns
C18_KnownAnswers ==
    \A n \in {16, 24, 32} :
        (aesEncrypted # <<>> /\ aesInput = FipsPlaintext
                             /\ aesKey = CountingBytes(n)) =>
            /\ aesEncrypted[1].output = FipsCiphertext(n)
            /\ Len(aesEncrypted[1].mixed) = 6 + (n \div 4)
            /\ \A r \in 1..Len(aesEncrypted[1].mixed) :
                   aesEncrypted[1].mixed[r] <=> r < 6 + (n \div 4)

C18_Witness ==
    /\ aesInput = FipsPlaintext
    /\ aesKey = CountingBytes(32)
    /\ aesEncrypted # <<>>
    /\ aesEncrypted[1].output = FipsCiphertext(32)
    /\ Len(aesEncrypted[1].mixed) = 14

\* C19: encrypt and decrypt throw the illegal-key-length error, with no key
\* expanded, no round run and no output, for every key whose length is not
\* 16, 24 or 32, and never throw it for a key of one of these lengths
C19_IllegalKeyLength ==
    \A r \in {aesEncrypted, aesDecrypted} :
        r # <<>> =>
            /\ r[1].threw <=> ~LegalKey
            /\ r[1].threw =>
                   r[1].keyWords = 0 /\ r[1].mixed = <<>> /\ r[1].output = <<>>
            /\ ~r[1].threw =>
                   r[1].keyWords = Len(aesKey) + 28 /\ Len(r[1].output) = 16

C19_Witness ==
    /\ Len(aesKey) = 17
    /\ aesDecrypted # <<>>
    /\ aesDecrypted[1].threw
    /\ aesDecrypted[1].output = <<>>

\* the pre-master secret of RFC 4279 for a key of hex characters: the length
\* N in two bytes, N zero bytes, N in two bytes, the N key bytes
Rfc4279Secret(key) ==
    LET n == Len(key) \div 2
        len == <<n \div 256, n % 256>>
    IN  len \o [i \in 1..n |-> 0] \o len \o PskBytes(key)

\* C20: for a PSK of N bytes the pre-master secret is N in two bytes, N zero
\* bytes, N in two bytes and the N bytes of the PSK, 2N + 4 bytes in all
C20_PreMasterSecretLayout ==
    preMaster # <<>> =>
        /\ preMaster[1] = Rfc4279Secret(psk)
        /\ Len(preMaster[1]) = Len(psk) + 4

\* the bytes of the labels in ASCII
AsciiOf(label) ==
    IF label[1] = "m"
    THEN <<109, 97, 115, 116, 101, 114, 32, 115, 101, 99, 114, 101, 116>>
    ELSE IF label[1] = "k"
    THEN <<107, 101, 121, 32, 101, 120, 112, 97, 110, 115, 105, 111, 110>>
    ELSE <<99, 108, 105, 101, 110, 116, 32, 102, 105, 110, 105, 115, 104,
           101, 100>>

\* the first 48 bytes of HMAC(secret, A1 || seed) || HMAC(secret, A2 || seed)
\* with A1 = HMAC(secret, seed) and A2 = HMAC(secret, A1)
FirstTwoBlocks(secret, seed) ==
    LET A1 == HMAC(secret, seed)
        A2 == HMAC(secret, A1)
    IN  SubSeq(HMAC(secret, A1 \o seed) \o HMAC(secret, A2 \o seed), 1, 48)

\* C21: P_hash(secret, seed) returns exactly 48 bytes, the first 48 bytes of
\* HMAC(secret, A1 || seed) || HMAC(secret, A2 || seed), and
\* PRF(secret, label, seed) is P_hash(secret, bytes(label) || seed)
C21_PHashConstruction ==
    pureRet # <<>> =>
        /\ pureFn = "P_hash" =>
               /\ Len(pureRet[1]) = 48
               /\ pureRet[1] = FirstTwoBlocks(pureArgs[1], pureArgs[2])
        /\ pureFn = "PRF" =>
               /\ Len(pureRet[1]) = 48
               /\ pureRet[1] = FirstTwoBlocks(pureArgs[1],
                                              AsciiOf(pureArgs[2]) \o pureArgs[3])
               /\ pureRet[1] = P_hash(pureArgs[1],
                                      AsciiOf(pureArgs[2]) \o pureArgs[3])

C21_Witness ==
    /\ pureFn = "PRF"
    /\ pureArgs = <<<<7, 8, 9>>,
                    <<"m", "a", "s", "t", "e", "r", " ", "s", "e", "c", "r", "e", "t">>,
                    <<3, 4>>>>
    /\ pureRet # <<>>
    /\ Len(pureRet[1]) = 48
    /\ pureRet[1][33].byte = 1
    /\ pureRet[1][33].hmac[2] # pureRet[1][1].hmac[2]

\* the transcript the verify data of the Finished record rec is computed over
TranscriptOf(rec) == rec.hs[1].verify[1].seed

\* a ClientHello with a cookie (header sequence 1) was handed over before
\* the i-th record
CookieHelloBefore(i) ==
    \E j \in 1..(i - 1) : IsClientHello(sent[j]) /\ sent[j].headerSeq = 1

\* C22: the verify data of every Finished the client sends is computed over
\* the four entries ClientHello, ServerHello, ServerHelloDone and
\* ClientKeyExchange in that order, all four present, and once the client
\* has answered a HelloVerifyRequest the ClientHello entry is the
\* cookie-bearing ClientHello (sequence 1)
C22_FinishedTranscript ==
    \A i \in 1..Len(sent) :
        IsFinished(sent[i]) =>
            LET t == TranscriptOf(sent[i])
            IN  /\ Len(t) = 4
                /\ \A k \in 1..4 : t[k] # <<>>
                /\ t[1][1].hType = CLIENT_HELLO /\ t[1][1].dir = "out"
                /\ t[2][1].hType = SERVER_HELLO /\ t[2][1].dir = "in"
                /\ t[3][1].hType = SERVER_HELLO_DONE /\ t[3][1].dir = "in"
                /\ t[4][1].hType = CLIENT_KEY_EXCHANGE /\ t[4][1].dir = "out"
                /\ CookieHelloBefore(i) => t[1][1].hSeq = 1

\* C23: the client random, once set, never changes: every ClientHello sent
\* carries the same random and the seeds of the master secret and of the
\* key block hold that value; the server random, once set, is not
\* overwritten
C23_RandomsSetOnce ==
    [][/\ clientRandom # <<>> => clientRandom' = clientRandom
       /\ serverRandom # <<>> => serverRandom' = serverRandom
       /\ \A i, j \in 1..Len(sent') :
              (IsClientHello(sent'[i]) /\ IsClientHello(sent'[j])) =>
                  sent'[i].hs[1].random = sent'[j].hs[1].random
       /\ \A i \in 1..Len(sent') :
              (IsClientHello(sent'[i]) /\ masterSecret' # <<>>) =>
                  masterSecret'[1].seed[1] = <<sent'[i].hs[1].random>>
       /\ \A i \in 1..Len(sent') :
              (IsClientHello(sent'[i]) /\ keyBlock' # <<>>) =>
                  keyBlock'[1].seed[2] = <<sent'[i].hs[1].random>>]_vars

\* C24: the master secret and the key block (of which the write keys and
\* the IVs are slices), once set, are changed by no later step
C24_KeysDerivedOnce ==
    [][/\ masterSecret # <<>> => masterSecret' = masterSecret
       /\ keyBlock # <<>> => keyBlock' = keyBlock]_vars

\* C25: at most one retransmission timer is pending and this.timers holds
\* at most one id, that of the pending timer; the id of an expired timer is
\* no longer in the list when the next timer is armed
C25_OneTimerPending ==
    [][/\ Len(timers') <= 1
       /\ Cardinality(sources') <= 1
       /\ \A s \in sources' : s.id \in {timers'[i] : i \in 1..Len(timers')}
       /\ \A s \in sources :
              s \notin sources' =>
                  \A i \in 1..Len(timers') : timers'[i] # s.id]_vars

\* a timer has expired and the next one is armed
C25_Witness ==
    /\ timers = <<2>>
    /\ sources = {[id |-> 2, attempt |-> 1]}
    /\ HelloCount = 2

\* the client has handed its Finished to the transport
FinishedSent == \E i \in 1..Len(sent) : IsFinished(sent[i])

\* C26: an inbound handshake record is passed to decryption if and only if
\* its record epoch is 1; a cleartext epoch-0 ServerHello read after the
\* client has sent its Finished is parsed as cleartext (its random bytes
\* become the server random)
C26_DecryptIffEpochOne ==
    [][\A rec \in InRecords :
           (rec.cType = HANDSHAKE /\ ReadOne(rec)) =>
               /\ Decrypts(Obj, rec) <=> rec.epoch = 1
               /\ (/\ FinishedSent
                   /\ rec.epoch = 0
                   /\ rec.hType = SERVER_HELLO
                   /\ ~rec.cut) => serverRandom' = <<rec.random>>]_vars

\* the bytes of a record: content type, version, epoch, 48-bit sequence
\* number, body length, body
RecordBytes(cType, epoch, seq, body) ==
    <<cType, 254, 253, 0, epoch, 0, 0, 0, 0, 0, seq, 0, Len(body)>> \o body

\* read buffers of whole records, as lists of records
WholeBuffers ==
    LET hello == RecordBytes(HANDSHAKE, 0, 0, <<2, 0, 0, 1, 0, 0, 0, 0, 0, 0, 0, 1, 9>>)
        done == RecordBytes(HANDSHAKE, 0, 1, <<14, 0, 0, 0, 0, 1, 0, 0, 0, 0, 0, 0>>)
        spec == RecordBytes(CHANGE_CIPHER_SPEC, 0, 2, <<1>>)
        alert == RecordBytes(ALERT, 1, 3, <<2, 40>>)
        data == RecordBytes(APPLICATION_DATA, 1, 4, <<>>)
    IN  {<<hello>>, <<data>>, <<hello, done>>, <<done, hello>>,
         <<spec, alert, data>>, <<data, data, hello>>,
         <<hello, done, spec, alert>>}

RECURSIVE Flatten(_)
Flatten(recs) == IF recs = <<>> THEN <<>> ELSE Head(recs) \o Flatten(Tail(recs))

\* read buffers that end inside a record, or whose length field announces
\* more bytes than the buffer holds
BrokenBuffers ==
    {<<22>>, <<22, 254, 253, 0, 0>>,
     <<22, 254, 253, 0, 0, 0, 0, 0, 0, 0, 0, 0, 9, 14, 0>>,
     RecordBytes(APPLICATION_DATA, 1, 4, <<>>) \o <<21, 254>>}

\* the parsing loop on the bytes of every buffer ends, after at most one
\* iteration per byte, and reads the records of a buffer of whole records
\* in buffer order
LoopEndsInOrder ==
    /\ \A msg \in BrokenBuffers \cup {Flatten(recs) : recs \in WholeBuffers} :
           LET w == WhileMsg(msg, <<>>, Len(msg))
           IN  w.ended /\ Len(w.packets) <= Len(msg)
    /\ \A recs \in WholeBuffers :
           LET w == WhileMsg(Flatten(recs), <<>>, Len(Flatten(recs)))
           IN  /\ Len(w.packets) = Len(recs)
               /\ \A i \in 1..Len(recs) :
                      /\ w.packets[i].cType = recs[i][1]
                      /\ w.packets[i].epoch = recs[i][5]
                      /\ w.packets[i].headerSeq = recs[i][11]
                      /\ w.packets[i].bodyLength = recs[i][13]

\* one record read and handled: _readPacket, then _handleResponse
HandleOne(o, rec) ==
    LET p == ReadPacket([o EXCEPT !.delivered = Deliver(@, rec)], rec)
    IN  IF p.o.threw THEN p.o ELSE HandleResponse(p.o, p)

\* C27: the parsing loop ends for every read buffer; the records of a
\* buffer are read and handled one at a time in buffer order, the handler
\* of a record having finished before the next record is read; the next
\* read is armed only when the loop has gone through the whole buffer
C27_RecordsInOrder ==
    /\ LoopEndsInOrder
    /\ (readArmed /\ ~inCancelled) =>
           \A buf \in PackedBuffers :
               LET o1 == HandleOne(Obj, buf[1])
                   rest == o1.threw \/ buf[1].cut
                   o2 == IF rest THEN o1 ELSE HandleOne(o1, buf[2])
                   after == ReadCallback(buf)
               IN  /\ after = [o2 EXCEPT !.readArmed = @ /\ ~o2.threw]
                   /\ after.readArmed => ~o2.threw

\* a HelloVerifyRequest and a ServerHelloDone arrived in one buffer: the
\* ClientHello with the cookie was sent before the ClientKeyExchange
C27_Witness ==
    /\ delivered["HelloVerifyRequest"] = 1
    /\ delivered["ServerHelloDone"] = 1
    /\ delivered["other"] = 0
    /\ Len(sent) = 3
    /\ IsClientHello(sent[2]) /\ sent[2].headerSeq = 1
    /\ IsKeyExchange(sent[3])
    /\ readArmed

\* C28: an inbound record whose content type is none of handshake (22),
\* change-cipher-spec (20) and alert (21) is ignored: reading it leaves the
\* encrypted flag, the handshake-in-progress flag, the transcript, the
\* randoms, the keys, streamSeq and the timers unchanged, sends nothing and
\* emits no notification
C28_UnknownTypeIgnored ==
    [][\A rec \in InRecords :
           (rec.cType \notin {HANDSHAKE, CHANGE_CIPHER_SPEC, ALERT}
            /\ ReadOne(rec)) =>
               /\ UNCHANGED <<enc, hip, msgs, clientRandom, serverRandom>>
               /\ UNCHANGED <<masterSecret, keyBlock, streamSeq>>
               /\ UNCHANGED <<timers, sources, sent, writes, signals>>
               /\ UNCHANGED <<socketClosed, outCancelled, inCancelled>>
               /\ readArmed']_vars

\* a record of another content type was read during the handshake, and
\* nothing but the first ClientHello has been sent
C28_Witness ==
    /\ connectState = "done"
    /\ delivered = [k \in Kinds |-> IF k = "other" THEN 1 ELSE 0]
    /\ Len(sent) = 1
    /\ Len(timers) = 1
    /\ hip /\ ~enc
    /\ serverRandom = <<>>
    /\ readArmed /\ ~socketClosed

\* C30: no two records sealed under the client write key carry the same
\* nonce (client IV, epoch, sequence number): the client's Finished and the
\* application-data records have pairwise distinct epoch-1 sequence numbers
C30_NoNonceReuse ==
    \A i, j \in 1..Len(sent) :
        (i < j /\ sent[i].nonce # <<>> /\ sent[j].nonce # <<>>
               /\ sent[i].nonce[1].key = sent[j].nonce[1].key) =>
            \/ sent[i].nonce[1].iv # sent[j].nonce[1].iv
            \/ sent[i].nonce[1].epochAndSeq # sent[j].nonce[1].epochAndSeq

\* the big-endian encoding in 6 bytes of the number given as <<hi, lo>>
BigEndian48(w) ==
    <<w[1] \div 65536, (w[1] \div 256) % 256, w[1] % 256,
      w[2] \div 65536, (w[2] \div 256) % 256, w[2] % 256>>

\* C29: uintToArray(n, 48) is the big-endian encoding of n in 6 bytes for
\* every 0 <= n < 2^48, each byte in 0..255, and arrayToUint of those bytes
\* is n
C29_SequenceRoundTrip ==
    /\ (pureFn = "uintToArray" /\ pureRet # <<>>) =>
           /\ pureRet[1] = BigEndian48(pureArgs[1])
           /\ \A i \in 1..Len(pureRet[1]) : pureRet[1][i] \in 0..255
    /\ pureFn = "arrayToUint" =>
           /\ pureArgs[2][1] < 128
           /\ pureRet[1] = pureArgs[2][1] * 16777216 + pureArgs[2][2]

\* C31: whenever the encrypted flag is set, the key block, of which the
\* client and server write keys and IVs are slices, has been derived
C31_KeysBeforeEncrypted == enc => keyBlock # <<>>

\* C32: once the owner has called closeBridge, no further record is handed
\* to the transport and no retransmission timer is armed
C32_NothingAfterClose ==
    [][closeCalls > 0 =>
           /\ sent' = sent
           /\ nextTimer' = nextTimer
           /\ sources' \subseteq sources]_vars

\* C33: once "disconnected" has been emitted because of an alert, no later
\* inbound record is acted upon: "connected" is never emitted after
\* "disconnected", and the record that follows an alert in a read buffer is
\* not dispatched (nothing is sent and nothing is emitted for it)
C33_NothingAfterAlert ==
    [][/\ \A i, j \in 1..Len(signals') :
              (i < j /\ signals'[i] = "disconnected") =>
                  signals'[j] # "connected"
       /\ \A buf \in PackedBuffers :
              (/\ buf[1].cType = ALERT
               /\ readArmed /\ ~inCancelled
               /\ Install(ReadCallback(buf))) =>
                  /\ sent' = sent
                  /\ signals' = Append(signals, "disconnected")
                  /\ enc' = enc
                  /\ hip' = hip]_vars

====
